---- MODULE Spec2Model ----
(***************************************************************************)
(* Confession bot (src/main.py): the moderation and publication state      *)
(* machine, the in-memory conversational flows and the admin gateway.      *)
(*                                                                         *)
(* Text is a sequence of one-character strings.  A message is dispatched   *)
(* as the bot framework does it: a registered next-step handler of the     *)
(* chat takes the message first; otherwise the message handlers are tried  *)
(* in the order of their registration in the file.  Every action is one    *)
(* handler run, with the outcome of the platform/database calls that can   *)
(* raise chosen by the environment.                                        *)
(***************************************************************************)
EXTENDS Integers, Sequences, FiniteSets, TLC

\* ------------------------------------------------------------------ bounds
MaxConf == 2
MaxPosts == 2
MaxComments == 11
MaxTagLen == 3
MaxThread == 2

\* -------------------------------------------------------- program constants
MAIN_ADMIN == 1
PageSize == 10

Users == {1, 2, 3}
\* the worker threads of the bot's pool, which run the handlers
Workers == {1, 2}
Channels == {-1, -2}
\* a group chat the bot is a member of; the private chat of a user has the
\* id of the user
Groups == {-3}
Chats == Users \cup Groups
ConfIds == 1..(MaxConf + 1)

\* --------------------------------------------------------------------- text
Chars == {" ", "#", ",", "a"}
None == <<"None">>
CancelText == <<"/cancel">>

RECURSIVE TextsUpTo(_)
TextsUpTo(n) ==
    IF n = 0 THEN {<<>>}
    ELSE LET shorter == TextsUpTo(n - 1)
         IN  shorter \cup {Append(s, c) : s \in {t \in shorter : Len(t) = n - 1}, c \in Chars}

IsSpace(c) == c = " "

TextOrEmpty(t) == IF t = None THEN <<>> ELSE t

RECURSIVE LStrip(_)
LStrip(s) == IF s # <<>> /\ IsSpace(Head(s)) THEN LStrip(Tail(s)) ELSE s

RECURSIVE RStrip(_)
RStrip(s) ==
    IF s # <<>> /\ IsSpace(s[Len(s)]) THEN RStrip(SubSeq(s, 1, Len(s) - 1)) ELSE s

\* mutant: the text is used as it was sent
PyStrip_missing(s) == s

\* str.strip()
PyStrip(s) == RStrip(LStrip(s))

\* str.lower(): the only cased text of the model is the cancel command
PyLower(s) == [i \in 1..Len(s) |-> IF s[i] = "/CANCEL" THEN "/cancel" ELSE s[i]]

RECURSIVE SplitWsFrom(_, _, _, _)
SplitWsFrom(s, i, cur, acc) ==
    IF i > Len(s) THEN (IF cur = <<>> THEN acc ELSE Append(acc, cur))
    ELSE IF IsSpace(s[i])
         THEN SplitWsFrom(s, i + 1, <<>>, IF cur = <<>> THEN acc ELSE Append(acc, cur))
         ELSE SplitWsFrom(s, i + 1, Append(cur, s[i]), acc)

\* str.split(): split on runs of whitespace, no empty token
PySplitWs(s) == SplitWsFrom(s, 1, <<>>, <<>>)

RECURSIVE SplitSepFrom(_, _, _, _, _)
SplitSepFrom(s, sep, i, cur, acc) ==
    IF i > Len(s) THEN Append(acc, cur)
    ELSE IF s[i] = sep
         THEN SplitSepFrom(s, sep, i + 1, <<>>, Append(acc, cur))
         ELSE SplitSepFrom(s, sep, i + 1, Append(cur, s[i]), acc)

\* str.split(sep): every separator cuts, empty pieces are kept
PySplitSep(s, sep) == SplitSepFrom(s, sep, 1, <<>>, <<>>)

RECURSIVE PyJoin(_, _)
\* sep.join(list)
PyJoin(sep, list) ==
    IF list = <<>> THEN <<>>
    ELSE IF Len(list) = 1 THEN list[1]
    ELSE list[1] \o <<sep>> \o PyJoin(sep, Tail(list))

\* str.replace(ch, "")
PyRemove(s, ch) == SelectSeq(s, LAMBDA c : c # ch)

\* list[:n]
PyTake(list, n) == SubSeq(list, 1, IF Len(list) < n THEN Len(list) ELSE n)

\* the tag list receive_confession_tags builds from the message text
ParseTags(text) ==
    LET raw == PyStrip(text)
        words == PyTake(PySplitWs(raw), 4)
        kept == SelectSeq(words, LAMBDA w : PyStrip(w) # <<>>)
    IN  [i \in 1..Len(kept) |-> PyRemove(PyStrip(kept[i]), "#")]

\* the tags column create_confession writes
TagsColumn(tags_list) == IF tags_list # <<>> THEN PyJoin(",", tags_list) ELSE <<>>

\* the tags get_confession_by_id returns for a stored column
TagsOfColumn(col) == IF col # <<>> THEN PySplitSep(col, ",") ELSE <<>>

\* -------------------------------------------------------------------- state
VARIABLES
    users,                \* table users: the ids
    admins,               \* table admins: rows [id, added_by]
    channels,             \* table channels: the chat ids
    settings,             \* table settings: key -> value
    confessions,          \* table confessions: row i has id i
    comments,             \* table comments: row i has id i
    pending_confessions,  \* user id -> [content]
    pending_add_comment,  \* user id -> confession id
    next_step,            \* chat id -> the registered next-step handler
    posts,                \* <<confession id, channel>> -> posts delivered
    buttons,              \* <<user, confession id>>: approve/decline buttons sent
    threads,              \* worker thread -> the handler it is running
    lastrowid,            \* cursor.lastrowid while a create_confession waits to read it
    last                  \* the handler that ran last, its input and outcome

vars == <<users, admins, channels, settings, confessions, comments,
          pending_confessions, pending_add_comment, next_step, posts, buttons,
          threads, lastrowid, last>>

NoOp ==
    [op |-> "none", user |-> 0, outcome |-> "none", conf |-> 0, input |-> <<>>,
     shown |-> {}, rows |-> <<>>, failed |-> {}]

Ran(op, u, outcome, conf, input) ==
    [op |-> op, user |-> u, outcome |-> outcome, conf |-> conf, input |-> input,
     shown |-> {}, rows |-> <<>>, failed |-> {}]

\* a run whose reply shows the author ids of shown to the user
RanShowing(op, u, outcome, conf, shown) ==
    [op |-> op, user |-> u, outcome |-> outcome, conf |-> conf, input |-> <<>>,
     shown |-> shown, rows |-> <<>>, failed |-> {}]

\* a run whose reply lists the comment rows of rows to the user
RanListing(op, u, outcome, conf, input, rows) ==
    [op |-> op, user |-> u, outcome |-> outcome, conf |-> conf, input |-> input,
     shown |-> {}, rows |-> rows, failed |-> {}]

\* a run that posted to the channels, the send to those of failed_ch raising
RanPosting(op, u, outcome, conf, input, failed_ch) ==
    [op |-> op, user |-> u, outcome |-> outcome, conf |-> conf, input |-> input,
     shown |-> {}, rows |-> <<>>, failed |-> failed_ch]

Idle ==
    [pc |-> "idle", user |-> 0, action |-> "none", conf |-> 0, chans |-> {},
     content |-> <<>>, tags |-> <<>>, auto |-> FALSE, own |-> 0, input |-> <<>>]

Init ==
    /\ users = {}
    /\ admins = {}
    /\ channels = {}
    /\ settings \in {<<>>, [k \in {"auto_approve"} |-> "0"]}
    /\ confessions = <<>>
    /\ comments = <<>>
    /\ pending_confessions = <<>>
    /\ pending_add_comment = <<>>
    /\ next_step = [c \in Chats |-> "none"]
    /\ posts = [p \in (1..MaxConf) \X Channels |-> 0]
    /\ buttons = {}
    /\ threads = [w \in Workers |-> Idle]
    /\ lastrowid = 0
    /\ last = NoOp

\* ----------------------------------------------------------------- helpers
\* cursor.lastrowid after an INSERT of the row rowid through the shared cursor.
\* Only create_confession reads it (add_comment's result is unused), so the
\* value is kept only while a create_confession is between its INSERT and its
\* read, and is 0 otherwise
Inserted(rowid) ==
    IF \E w \in Workers : threads[w].pc = "lastrowid" THEN rowid ELSE 0

\* dict[k] = v
Put(f, k, v) == [x \in DOMAIN f \cup {k} |-> IF x = k THEN v ELSE f[x]]

\* dict.pop(k, None)
Pop(f, k) == [x \in DOMAIN f \ {k} |-> f[x]]

get_setting(key, default) == IF key \in DOMAIN settings THEN settings[key] ELSE default

\* mutant: a setting that was never written counts as on
is_auto_approve_default_on == get_setting("auto_approve", "1") = "1"

is_auto_approve == get_setting("auto_approve", "0") = "1"

add_user_if_missing(user_id) == users \cup {user_id}

AdminIds == {r.id : r \in admins}

\* mutant: whoever holds approve/decline buttons counts as an admin
is_admin_by_button(user_id) ==
    user_id = MAIN_ADMIN \/ user_id \in AdminIds \/ \E c \in ConfIds : <<user_id, c>> \in buttons

is_admin(user_id) == user_id = MAIN_ADMIN \/ user_id \in AdminIds

\* mutant: the row is looked up by its author (WHERE user_id=?)
get_confession_by_id_author(conf_id) ==
    IF \E i \in DOMAIN confessions : confessions[i].user_id = conf_id
    THEN LET row == confessions[CHOOSE i \in DOMAIN confessions :
                                    confessions[i].user_id = conf_id]
         IN  [found |-> TRUE,
              id |-> row.id,
              user_id |-> row.user_id,
              content |-> row.content,
              tags |-> TagsOfColumn(row.tags),
              status |-> row.status]
    ELSE [found |-> FALSE, id |-> 0, user_id |-> 0, content |-> <<>>, tags |-> <<>>,
          status |-> "none"]

get_confession_by_id(conf_id) ==
    IF \E i \in DOMAIN confessions : confessions[i].id = conf_id
    THEN LET row == confessions[CHOOSE i \in DOMAIN confessions : confessions[i].id = conf_id]
         IN  [found |-> TRUE,
              id |-> row.id,
              user_id |-> row.user_id,
              content |-> row.content,
              tags |-> TagsOfColumn(row.tags),
              status |-> row.status]
    ELSE [found |-> FALSE, id |-> 0, user_id |-> 0, content |-> <<>>, tags |-> <<>>,
          status |-> "none"]

\* UPDATE confessions SET status=? WHERE id=?
set_confession_status(conf_id, status) ==
    [i \in DOMAIN confessions |->
        IF confessions[i].id = conf_id
        THEN [confessions[i] EXCEPT !.status = status]
        ELSE confessions[i]]

\* mutant: the id column is not generated, every row gets the id 1
create_confession_unkeyed(user_id, content, tags_list, status) ==
    Append(confessions,
           [id |-> 1, user_id |-> user_id, content |-> content,
            tags |-> TagsColumn(tags_list), status |-> status])

\* id is INTEGER PRIMARY KEY AUTOINCREMENT and no row is ever deleted: the new
\* row gets the next id
create_confession(user_id, content, tags_list, status) ==
    Append(confessions,
           [id |-> Len(confessions) + 1, user_id |-> user_id, content |-> content,
            tags |-> TagsColumn(tags_list), status |-> status])

\* mutant: the table keeps one comment per confession (INSERT OR REPLACE)
add_comment_replace(confession_id, text) ==
    IF \E i \in 1..Len(comments) : comments[i].confession_id = confession_id
    THEN [i \in 1..Len(comments) |->
             IF comments[i].confession_id = confession_id
             THEN [comments[i] EXCEPT !.text = text]
             ELSE comments[i]]
    ELSE Append(comments,
                [id |-> Len(comments) + 1, confession_id |-> confession_id, text |-> text])

\* mutant: the row also keeps who wrote it
add_comment_signed(confession_id, text) ==
    Append(comments,
           [id |-> Len(comments) + 1, confession_id |-> confession_id, text |-> text,
            user_id |-> CHOOSE u \in DOMAIN pending_add_comment :
                            pending_add_comment[u] = confession_id])

\* INSERT INTO comments: the AUTOINCREMENT id is one more than the largest id
\* ever used, which is the row count since no row is ever deleted
add_comment(confession_id, text) ==
    Append(comments,
           [id |-> Len(comments) + 1, confession_id |-> confession_id, text |-> text])

\* mutant: the newest comments come first (ORDER BY id DESC)
get_comments_for_conf_newest(confession_id, limit, offset) ==
    LET found == SelectSeq(comments, LAMBDA r : r.confession_id = confession_id)
        desc == [i \in 1..Len(found) |-> found[Len(found) + 1 - i]]
        upto == IF offset + limit < Len(desc) THEN offset + limit ELSE Len(desc)
        rows == SubSeq(desc, offset + 1, upto)
    IN  [i \in 1..Len(rows) |-> [id |-> rows[i].id, text |-> rows[i].text]]

\* SELECT id, text, created_at FROM comments WHERE confession_id=?
\* ORDER BY id ASC LIMIT ? OFFSET ?  (the table is kept in the order of the ids)
get_comments_for_conf(confession_id, limit, offset) ==
    LET found == SelectSeq(comments, LAMBDA r : r.confession_id = confession_id)
        upto == IF offset + limit < Len(found) THEN offset + limit ELSE Len(found)
        rows == SubSeq(found, offset + 1, upto)
    IN  [i \in 1..Len(rows) |-> [id |-> rows[i].id, text |-> rows[i].text]]

\* SELECT COUNT(*) FROM comments WHERE confession_id=?
count_comments(confession_id) ==
    Len(SelectSeq(comments, LAMBDA r : r.confession_id = confession_id))

\* mutant: the first send that raises ends the loop (the channels are listed
\* in the order of their chat ids)
PostToChannels_abort(conf_id, failed_ch) ==
    [p \in DOMAIN posts |->
        IF /\ p[1] = conf_id
           /\ p[2] \in channels
           /\ \A f \in failed_ch \cap channels : p[2] < f
        THEN posts[p] + 1 ELSE posts[p]]

\* bot.send_message(ch, ...) in a try/except for every listed channel:
\* the channels of failed_ch raise, the others receive the confession
PostToChannels(conf_id, failed_ch) ==
    [p \in DOMAIN posts |->
        IF p[1] = conf_id /\ p[2] \in channels \ failed_ch THEN posts[p] + 1 ELSE posts[p]]

CanPost(conf_id) == \A ch \in channels : posts[<<conf_id, ch>>] < MaxPosts

\* the approve/decline buttons go to MAIN_ADMIN and to every secondary admin
NotifyAdmins(conf_id) == buttons \cup {<<a, conf_id>> : a \in {MAIN_ADMIN} \cup AdminIds}

\* a message reaches the handlers registered after handle_user_comment only
\* when no next-step handler is registered and no comment target is pending
Regular(u) == next_step[u] = "none" /\ u \notin DOMAIN pending_add_comment

\* ------------------------------------------------------- confession flow
start_confess(u) ==
    /\ next_step[u] = "none"
    /\ users' = add_user_if_missing(u)
    /\ next_step' = [next_step EXCEPT ![u] = "receive_confession_text"]
    /\ last' = Ran("start_confess", u, "prompt", 0, <<>>)
    /\ lastrowid' = (IF u \in users THEN lastrowid ELSE Inserted(u))
    /\ UNCHANGED <<threads, admins, channels, settings, confessions, comments,
                   pending_confessions, pending_add_comment, posts, buttons>>

\* mutant: an unfinished draft is kept and the new text is added to it
StoreDraft_merge(u, text) ==
    IF u \in DOMAIN pending_confessions
    THEN Put(pending_confessions, u, [content |-> pending_confessions[u].content \o text])
    ELSE Put(pending_confessions, u, [content |-> text])

\* pending_confessions[user_id] = {"content": text}
StoreDraft(u, text) == Put(pending_confessions, u, [content |-> text])

receive_confession_text(u, t) ==
    /\ next_step[u] = "receive_confession_text"
    /\ LET text == PyStrip(TextOrEmpty(t))
       IN  IF text = <<>>
           THEN /\ next_step' = [next_step EXCEPT ![u] = "none"]
                /\ last' = Ran("receive_confession_text", u, "empty", 0, t)
                /\ UNCHANGED pending_confessions
           ELSE /\ pending_confessions' = StoreDraft(u, text)
                /\ next_step' = [next_step EXCEPT ![u] = "receive_confession_tags"]
                /\ last' = Ran("receive_confession_text", u,
                               IF u \in DOMAIN pending_confessions THEN "replaced" ELSE "stored",
                               0, t)
    /\ UNCHANGED <<threads, lastrowid, users, admins, channels, settings, confessions, comments,
                   pending_add_comment, posts, buttons>>

\* mutant: looking the draft up creates an empty one (a defaultdict)
NoPendingDraft_defaultdict(op, u, t) ==
    /\ last' = Ran(op, u, "no_pending", 0, t)
    /\ pending_confessions' = Put(pending_confessions, u, [content |-> <<>>])
    /\ UNCHANGED <<users, confessions, posts, buttons>>

\* "if user_id not in pending_confessions": the reply and the return
NoPendingDraft(op, u, t) ==
    /\ last' = Ran(op, u, "no_pending", 0, t)
    /\ UNCHANGED <<users, confessions, posts, buttons, pending_confessions>>

\* the part receive_confession_tags and handle_skip_tags share, from the read of
\* the draft to its removal.  fail names the call that raises: "insert" is
\* create_confession, "confirm" is the send_message to the author
CreateFromDraft(op, u, tags, input, fail, failed_ch) ==
    LET content == pending_confessions[u].content
        auto == is_auto_approve
        status == IF auto THEN "approved" ELSE "pending"
        conf_id == Len(confessions) + 1
    IN  /\ users' = add_user_if_missing(u)
        /\ IF fail = "insert"
           THEN /\ last' = Ran(op, u, "failed", 0, input)
                /\ UNCHANGED <<confessions, posts, buttons, pending_confessions>>
           ELSE /\ Len(confessions) < MaxConf
                /\ confessions' = create_confession(u, content, tags, status)
                /\ IF auto
                   THEN /\ posts' = PostToChannels(conf_id, failed_ch)
                        /\ UNCHANGED buttons
                   ELSE /\ buttons' = NotifyAdmins(conf_id)
                        /\ UNCHANGED posts
                /\ IF fail = "confirm"
                   THEN /\ last' = RanPosting(op, u, "failed", conf_id, input,
                                              IF auto THEN failed_ch ELSE {})
                        /\ UNCHANGED pending_confessions
                   ELSE /\ last' = RanPosting(op, u, "created", conf_id, input,
                                              IF auto THEN failed_ch ELSE {})
                        /\ pending_confessions' = Pop(pending_confessions, u)

receive_confession_tags(u, t, fail, failed_ch) ==
    /\ next_step[u] = "receive_confession_tags"
    /\ next_step' = [next_step EXCEPT ![u] = "none"]
    /\ IF u \notin DOMAIN pending_confessions
       THEN NoPendingDraft("receive_confession_tags", u, t)
       ELSE IF t = None
       THEN /\ last' = Ran("receive_confession_tags", u, "no_text", 0, t)
            /\ UNCHANGED <<users, confessions, posts, buttons, pending_confessions>>
       ELSE CreateFromDraft("receive_confession_tags", u, ParseTags(t), t, fail, failed_ch)
    /\ lastrowid' = (IF confessions' # confessions THEN Inserted(Len(confessions'))
                    ELSE IF users' # users THEN Inserted(u) ELSE lastrowid)
    /\ UNCHANGED <<threads, admins, channels, settings, comments, pending_add_comment>>

handle_skip_tags(u, fail, failed_ch) ==
    /\ IF u \notin DOMAIN pending_confessions
       THEN NoPendingDraft("handle_skip_tags", u, <<>>)
       ELSE CreateFromDraft("handle_skip_tags", u, <<>>, <<>>, fail, failed_ch)
    /\ lastrowid' = (IF confessions' # confessions THEN Inserted(Len(confessions'))
                    ELSE IF users' # users THEN Inserted(u) ELSE lastrowid)
    /\ UNCHANGED <<threads, admins, channels, settings, comments, pending_add_comment, next_step>>

\* ------------------------------------------- the finalizers, statement by
\* statement.  Handlers run on worker threads (line 30) and share one cursor
\* (lines 36-37), so the statements of two running handlers interleave.
\* Lines 261-274 or 318-324: the draft is looked up and read, the author is
\* registered and the auto-approve setting is read.  op is the handler, t the
\* text of the tag message (<<>> for Skip)
finalize_begin(w, u, op, t) ==
    /\ threads[w] = Idle
    /\ op = "receive_confession_tags" => next_step[u] = "receive_confession_tags"
    /\ next_step' = IF op = "receive_confession_tags"
                    THEN [next_step EXCEPT ![u] = "none"]
                    ELSE next_step
    /\ IF u \notin DOMAIN pending_confessions
       THEN /\ last' = Ran(op, u, "no_pending", 0, t)
            /\ UNCHANGED <<users, threads, lastrowid>>
       ELSE IF op = "receive_confession_tags" /\ t = None
       THEN /\ last' = Ran(op, u, "no_text", 0, t)
            /\ UNCHANGED <<users, threads, lastrowid>>
       ELSE /\ users' = add_user_if_missing(u)
            /\ lastrowid' = (IF u \in users THEN lastrowid ELSE Inserted(u))
            /\ threads' = [threads EXCEPT ![w] =
                             [Idle EXCEPT !.pc = "insert", !.user = u, !.action = op,
                                          !.content = pending_confessions[u].content,
                                          !.tags = IF op = "receive_confession_tags"
                                                   THEN ParseTags(t) ELSE <<>>,
                                          !.auto = is_auto_approve,
                                          !.input = t]]
            /\ last' = Ran(op, u, "running", 0, t)
    /\ UNCHANGED <<admins, channels, settings, confessions, comments,
                   pending_confessions, pending_add_comment, posts, buttons>>

\* Lines 141-145: create_confession's INSERT and commit through the shared
\* cursor.  own is the id of the row this handler inserted
finalize_insert(w) ==
    /\ threads[w].pc = "insert"
    /\ Len(confessions) < MaxConf
    /\ LET t == threads[w]
       IN  /\ confessions' = create_confession(t.user, t.content, t.tags,
                                               IF t.auto THEN "approved" ELSE "pending")
           /\ lastrowid' = confessions'[Len(confessions')].id
           /\ threads' = [threads EXCEPT ![w].pc = "lastrowid",
                                         ![w].own = confessions'[Len(confessions')].id]
           /\ last' = Ran(t.action, t.user, "running", 0, t.input)
    /\ UNCHANGED <<users, admins, channels, settings, comments, pending_confessions,
                   pending_add_comment, next_step, posts, buttons>>

\* Line 146: "return cursor.lastrowid", the rowid of the cursor's last INSERT,
\* whichever handler ran it; conf_id (line 276 or 326) is that value
finalize_lastrowid(w) ==
    /\ threads[w].pc = "lastrowid"
    /\ threads' = [threads EXCEPT ![w].pc = "publish", ![w].conf = lastrowid]
    /\ lastrowid' = IF \E x \in Workers \ {w} : threads[x].pc = "lastrowid"
                    THEN lastrowid ELSE 0
    /\ last' = Ran(threads[w].action, threads[w].user, "running", 0, threads[w].input)
    /\ UNCHANGED <<users, admins, channels, settings, confessions, comments,
                   pending_confessions, pending_add_comment, next_step, posts, buttons>>

\* Lines 277-313 or 327-357: the row conf_id is read back; it is posted to the
\* channels (a row that is not there makes format_confession_text raise inside
\* the try), or the admins get the buttons of conf_id beside this handler's
\* own content; the draft is removed
finalize_publish(w) ==
    /\ threads[w].pc = "publish"
    /\ LET t == threads[w]
       IN  /\ IF t.auto
              THEN /\ posts' = IF get_confession_by_id(t.conf).found
                               THEN PostToChannels(t.conf, {})
                               ELSE posts
                   /\ UNCHANGED buttons
              ELSE /\ buttons' = NotifyAdmins(t.conf)
                   /\ UNCHANGED posts
           /\ pending_confessions' = Pop(pending_confessions, t.user)
           /\ last' = Ran(t.action, t.user, "created", t.conf, t.input)
    /\ threads' = [threads EXCEPT ![w] = Idle]
    /\ UNCHANGED <<lastrowid, users, admins, channels, settings, confessions, comments,
                   pending_add_comment, next_step>>

\* ------------------------------------------------- callbacks: approve/decline
handle_callback_decide(u, action, conf_id, failed_ch) ==
    /\ IF ~is_admin(u)
       THEN /\ last' = Ran(action, u, "not_authorized", conf_id, <<>>)
            /\ UNCHANGED <<confessions, posts>>
       ELSE IF ~get_confession_by_id(conf_id).found
       THEN /\ last' = Ran(action, u, "not_found", conf_id, <<>>)
            /\ UNCHANGED <<confessions, posts>>
       ELSE IF action = "approve"
       THEN /\ CanPost(conf_id)
            /\ confessions' = set_confession_status(conf_id, "approved")
            /\ posts' = PostToChannels(conf_id, failed_ch)
            /\ last' = RanPosting(action, u, "approved", conf_id, <<>>, failed_ch)
       ELSE /\ confessions' = set_confession_status(conf_id, "declined")
            /\ last' = Ran(action, u, "declined", conf_id, <<>>)
            /\ UNCHANGED posts
    /\ UNCHANGED <<threads, lastrowid, users, admins, channels, settings, comments, pending_confessions,
                   pending_add_comment, next_step, buttons>>

\* The same handler as the worker threads run it: one step per database call
\* and per send to a channel, the steps of two workers interleaving.
\* Lines 373-379: the admin check and the lookup of the confession.
decide_begin(w, u, action, conf_id) ==
    /\ threads[w] = Idle
    /\ IF ~is_admin(u)
       THEN /\ last' = Ran(action, u, "not_authorized", conf_id, <<>>)
            /\ UNCHANGED threads
       ELSE IF ~get_confession_by_id(conf_id).found
       THEN /\ last' = Ran(action, u, "not_found", conf_id, <<>>)
            /\ UNCHANGED threads
       ELSE /\ threads' = [threads EXCEPT ![w] =
                             [Idle EXCEPT !.pc = "set_status", !.user = u,
                                          !.action = action, !.conf = conf_id]]
            /\ last' = Ran(action, u, "running", conf_id, <<>>)
    /\ UNCHANGED <<lastrowid, users, admins, channels, settings, confessions, comments,
                   pending_confessions, pending_add_comment, next_step, posts, buttons>>

\* Line 382 or 399: the status is written and committed; decline ends here
decide_set_status(w) ==
    /\ threads[w].pc = "set_status"
    /\ LET t == threads[w]
       IN  IF t.action = "approve"
           THEN /\ confessions' = set_confession_status(t.conf, "approved")
                /\ threads' = [threads EXCEPT ![w].pc = "list_channels"]
                /\ last' = Ran(t.action, t.user, "running", t.conf, <<>>)
           ELSE /\ confessions' = set_confession_status(t.conf, "declined")
                /\ threads' = [threads EXCEPT ![w] = Idle]
                /\ last' = Ran(t.action, t.user, "declined", t.conf, <<>>)
    /\ UNCHANGED <<lastrowid, users, admins, channels, settings, comments, pending_confessions,
                   pending_add_comment, next_step, posts, buttons>>

\* Lines 383-386: the confession is read again and the channels are listed
decide_list_channels(w) ==
    /\ threads[w].pc = "list_channels"
    /\ LET t == threads[w]
       IN  IF channels = {}
           THEN /\ threads' = [threads EXCEPT ![w] = Idle]
                /\ last' = Ran(t.action, t.user, "approved", t.conf, <<>>)
           ELSE /\ threads' = [threads EXCEPT ![w].pc = "post", ![w].chans = channels]
                /\ last' = Ran(t.action, t.user, "running", t.conf, <<>>)
    /\ UNCHANGED <<lastrowid, users, admins, channels, settings, confessions, comments,
                   pending_confessions, pending_add_comment, next_step, posts, buttons>>

\* Lines 388-397: the send to the next listed channel (the SELECT has no ORDER
\* BY), which raises when ~delivered; after the last one the handler ends
decide_post(w, ch, delivered) ==
    /\ threads[w].pc = "post"
    /\ ch \in threads[w].chans
    /\ posts[<<threads[w].conf, ch>>] < MaxPosts
    /\ LET t == threads[w]
           rest == t.chans \ {ch}
       IN  /\ posts' = IF delivered
                       THEN [posts EXCEPT ![<<t.conf, ch>>] = @ + 1]
                       ELSE posts
           /\ IF rest = {}
              THEN /\ threads' = [threads EXCEPT ![w] = Idle]
                   /\ last' = Ran(t.action, t.user, "approved", t.conf, <<>>)
              ELSE /\ threads' = [threads EXCEPT ![w].chans = rest]
                   /\ last' = Ran(t.action, t.user, "running", t.conf, <<>>)
    /\ UNCHANGED <<lastrowid, users, admins, channels, settings, confessions, comments,
                   pending_confessions, pending_add_comment, next_step, buttons>>

\* ------------------------------------------------------------ admin panel
toggle_auto(u) ==
    /\ Regular(u)
    /\ is_admin(u)
    /\ settings' = Put(settings, "auto_approve", IF is_auto_approve THEN "0" ELSE "1")
    /\ last' = Ran("toggle_auto", u, IF is_auto_approve THEN "off" ELSE "on", 0, <<>>)
    \* REPLACE gives the settings row a new rowid at every write
    /\ lastrowid' \in {Inserted(rowid) : rowid \in ConfIds}
    /\ UNCHANGED <<threads, users, admins, channels, confessions, comments, pending_confessions,
                   pending_add_comment, next_step, posts, buttons>>

\* a number typed by the user: num.valid is whether int(m.text.strip()) succeeds
Numbers(ids) == [valid : {TRUE}, n : ids] \cup {[valid |-> FALSE, n |-> 0]}

prompt_view_sender(u) ==
    /\ Regular(u)
    /\ is_admin(u)
    /\ next_step' = [next_step EXCEPT ![u] = "handle_view_sender"]
    /\ last' = Ran("prompt_view_sender", u, "prompt", 0, <<>>)
    /\ UNCHANGED <<threads, lastrowid, users, admins, channels, settings, confessions, comments,
                   pending_confessions, pending_add_comment, posts, buttons>>

handle_view_sender(u, num) ==
    /\ next_step[u] = "handle_view_sender"
    /\ next_step' = [next_step EXCEPT ![u] = "none"]
    /\ last' = IF ~num.valid THEN Ran("handle_view_sender", u, "invalid", 0, <<>>)
               ELSE IF ~get_confession_by_id(num.n).found
               THEN Ran("handle_view_sender", u, "not_found", num.n, <<>>)
               ELSE RanShowing("handle_view_sender", u, "sender", num.n,
                               {get_confession_by_id(num.n).user_id})
    /\ UNCHANGED <<threads, lastrowid, users, admins, channels, settings, confessions, comments,
                   pending_confessions, pending_add_comment, posts, buttons>>

get_pending_confessions ==
    LET pending == SelectSeq(confessions, LAMBDA r : r.status = "pending")
    IN  [i \in 1..Len(pending) |-> [id |-> pending[i].id, user_id |-> pending[i].user_id]]

cmd_pending(u) ==
    /\ Regular(u)
    /\ last' = IF ~is_admin(u) THEN Ran("cmd_pending", u, "not_authorized", 0, <<>>)
               ELSE IF get_pending_confessions = <<>>
               THEN Ran("cmd_pending", u, "no_pending", 0, <<>>)
               ELSE RanShowing("cmd_pending", u, "listed", 0,
                               {get_pending_confessions[i].user_id :
                                    i \in 1..Len(get_pending_confessions)})
    /\ UNCHANGED <<threads, lastrowid, users, admins, channels, settings, confessions, comments,
                   pending_confessions, pending_add_comment, next_step, posts, buttons>>

\* ------------------------------------------------ admins (MAIN_ADMIN only)
add_secondary_admin(admin_id, added_by) ==
    IF admin_id \in AdminIds THEN admins
    ELSE admins \cup {[id |-> admin_id, added_by |-> added_by]}

remove_secondary_admin(admin_id) == {r \in admins : r.id # admin_id}

\* mutant: the id of the main admin is accepted like any other
IsMainAdmin_never(new_id) == FALSE

\* "if new_id == MAIN_ADMIN" of handle_add_admin
IsMainAdmin(new_id) == new_id = MAIN_ADMIN

\* "Add Admin" sent by u in chat: the filter tests the text and the sender, not
\* the chat, and register_next_step_handler(m, ...) registers for m.chat.id
add_admin_prompt_in(chat, u) ==
    /\ next_step[chat] = "none"
    /\ chat = u => u \notin DOMAIN pending_add_comment
    /\ u = MAIN_ADMIN
    /\ next_step' = [next_step EXCEPT ![chat] = "handle_add_admin"]
    /\ last' = Ran("add_admin_prompt", u, "prompt", 0, <<>>)
    /\ UNCHANGED <<threads, lastrowid, users, admins, channels, settings, confessions, comments,
                   pending_confessions, pending_add_comment, posts, buttons>>

\* the same in the private chat of u
add_admin_prompt(u) == add_admin_prompt_in(u, u)

\* the next message of the chat, sent by u: the handler does not look at
\* m.from_user
handle_add_admin_in(chat, u, num) ==
    /\ next_step[chat] = "handle_add_admin"
    /\ next_step' = [next_step EXCEPT ![chat] = "none"]
    /\ IF ~num.valid
       THEN /\ last' = Ran("handle_add_admin", u, "invalid", 0, <<>>)
            /\ UNCHANGED admins
       ELSE IF IsMainAdmin(num.n)
       THEN /\ last' = Ran("handle_add_admin", u, "main_admin", num.n, <<>>)
            /\ UNCHANGED admins
       ELSE /\ admins' = add_secondary_admin(num.n, MAIN_ADMIN)
            /\ last' = Ran("handle_add_admin", u,
                           IF num.n \in AdminIds THEN "already" ELSE "added", num.n, <<>>)
    /\ lastrowid' = (IF admins' # admins THEN Inserted(num.n) ELSE lastrowid)
    /\ UNCHANGED <<threads, users, channels, settings, confessions, comments,
                   pending_confessions, pending_add_comment, posts, buttons>>

handle_add_admin(u, num) == handle_add_admin_in(u, u, num)

remove_admin_prompt_in(chat, u) ==
    /\ next_step[chat] = "none"
    /\ chat = u => u \notin DOMAIN pending_add_comment
    /\ u = MAIN_ADMIN
    /\ next_step' = [next_step EXCEPT ![chat] = "handle_remove_admin"]
    /\ last' = Ran("remove_admin_prompt", u, "prompt", 0, <<>>)
    /\ UNCHANGED <<threads, lastrowid, users, admins, channels, settings, confessions, comments,
                   pending_confessions, pending_add_comment, posts, buttons>>

remove_admin_prompt(u) == remove_admin_prompt_in(u, u)

handle_remove_admin_in(chat, u, num) ==
    /\ next_step[chat] = "handle_remove_admin"
    /\ next_step' = [next_step EXCEPT ![chat] = "none"]
    /\ IF ~num.valid
       THEN /\ last' = Ran("handle_remove_admin", u, "invalid", 0, <<>>)
            /\ UNCHANGED admins
       ELSE /\ admins' = remove_secondary_admin(num.n)
            /\ last' = Ran("handle_remove_admin", u, "removed", num.n, <<>>)
    /\ UNCHANGED <<threads, lastrowid, users, channels, settings, confessions, comments,
                   pending_confessions, pending_add_comment, posts, buttons>>

handle_remove_admin(u, num) == handle_remove_admin_in(u, u, num)

\* ---------------------------------------------------------------- channels
add_channel(chat_id) == channels \cup {chat_id}

remove_channel(chat_id) == channels \ {chat_id}

add_channel_prompt(u) ==
    /\ Regular(u)
    /\ is_admin(u)
    /\ next_step' = [next_step EXCEPT ![u] = "handle_add_channel"]
    /\ last' = Ran("add_channel_prompt", u, "prompt", 0, <<>>)
    /\ UNCHANGED <<threads, lastrowid, users, admins, channels, settings, confessions, comments,
                   pending_confessions, pending_add_comment, posts, buttons>>

\* bot_is_admin: what get_chat/get_chat_member report for the channel
handle_add_channel(u, chat_id, bot_is_admin) ==
    /\ next_step[u] = "handle_add_channel"
    /\ next_step' = [next_step EXCEPT ![u] = "none"]
    /\ IF ~bot_is_admin
       THEN /\ last' = Ran("handle_add_channel", u, "not_admin", chat_id, <<>>)
            /\ UNCHANGED channels
       ELSE /\ channels' = add_channel(chat_id)
            /\ last' = Ran("handle_add_channel", u,
                           IF chat_id \in channels THEN "already" ELSE "added", chat_id, <<>>)
    /\ lastrowid' = (IF channels' # channels THEN Inserted(chat_id) ELSE lastrowid)
    /\ UNCHANGED <<threads, users, admins, settings, confessions, comments,
                   pending_confessions, pending_add_comment, posts, buttons>>

remove_channel_prompt(u) ==
    /\ Regular(u)
    /\ is_admin(u)
    /\ next_step' = [next_step EXCEPT ![u] = "handle_remove_channel"]
    /\ last' = Ran("remove_channel_prompt", u, "prompt", 0, <<>>)
    /\ UNCHANGED <<threads, lastrowid, users, admins, channels, settings, confessions, comments,
                   pending_confessions, pending_add_comment, posts, buttons>>

handle_remove_channel(u, chat_id) ==
    /\ next_step[u] = "handle_remove_channel"
    /\ next_step' = [next_step EXCEPT ![u] = "none"]
    /\ channels' = remove_channel(chat_id)
    /\ last' = Ran("handle_remove_channel", u, "removed", chat_id, <<>>)
    /\ UNCHANGED <<threads, lastrowid, users, admins, settings, confessions, comments,
                   pending_confessions, pending_add_comment, posts, buttons>>

\* ---------------------------------------------------------------- comments
\* call.data is "action|field|...": fields are the pieces after the action, as
\* numbers.  data.split("|", 1) leaves everything after the first "|" in sid,
\* and int(sid) succeeds only when that is a single number
SidIsNumber(fields) == Len(fields) = 1

\* delivered: whether the private send_message to the user succeeds
handle_callback_viewcomments(u, fields, delivered) ==
    /\ IF ~SidIsNumber(fields)
       THEN last' = Ran("viewcomments", u, "invalid_id", 0, fields)
       ELSE LET conf_id == fields[1]
                rows == get_comments_for_conf(conf_id, PageSize, 0)
            IN  IF ~get_confession_by_id(conf_id).found
                THEN last' = Ran("viewcomments", u, "not_found", conf_id, fields)
                ELSE IF ~delivered
                THEN last' = Ran("viewcomments", u, "undelivered", conf_id, fields)
                ELSE IF rows = <<>>
                THEN last' = Ran("viewcomments", u, "no_comments", conf_id, fields)
                ELSE last' = RanListing("viewcomments", u, "listed", conf_id, fields, rows)
    /\ UNCHANGED <<threads, lastrowid, users, admins, channels, settings, confessions, comments,
                   pending_confessions, pending_add_comment, next_step, posts, buttons>>

handle_callback_viewpage(u, fields, delivered) ==
    /\ LET parts == <<"viewpage">> \o fields
       IN  IF ~SidIsNumber(fields)
           THEN last' = Ran("viewpage", u, "invalid_id", 0, fields)
           ELSE IF Len(parts) < 3
           THEN last' = Ran("viewpage", u, "invalid_page", 0, fields)
           ELSE LET conf_id == parts[2]
                    page == parts[3]
                    offset == page * PageSize
                    rows == get_comments_for_conf(conf_id, PageSize, offset)
                IN  IF rows = <<>>
                    THEN last' = Ran("viewpage", u, "no_more", conf_id, fields)
                    ELSE IF ~delivered
                    THEN last' = Ran("viewpage", u, "undelivered", conf_id, fields)
                    ELSE last' = RanListing("viewpage", u, "listed", conf_id, fields, rows)
    /\ UNCHANGED <<threads, lastrowid, users, admins, channels, settings, confessions, comments,
                   pending_confessions, pending_add_comment, next_step, posts, buttons>>

\* delivered: whether the private send_message to the user succeeds
handle_callback_addcomment(u, conf_id, delivered) ==
    /\ IF ~get_confession_by_id(conf_id).found
       THEN /\ last' = Ran("addcomment", u, "not_found", conf_id, <<>>)
            /\ UNCHANGED pending_add_comment
       ELSE IF delivered
       THEN /\ pending_add_comment' = Put(pending_add_comment, u, conf_id)
            /\ last' = Ran("addcomment", u, "target_set", conf_id, <<>>)
       ELSE /\ last' = Ran("addcomment", u, "undelivered", conf_id, <<>>)
            /\ UNCHANGED pending_add_comment
    /\ UNCHANGED <<threads, lastrowid, users, admins, channels, settings, confessions, comments,
                   pending_confessions, next_step, posts, buttons>>

handle_user_comment(u, t) ==
    /\ next_step[u] = "none"
    /\ u \in DOMAIN pending_add_comment
    /\ IF t # None /\ PyLower(PyStrip(t)) = CancelText
       THEN /\ pending_add_comment' = Pop(pending_add_comment, u)
            /\ last' = Ran("handle_user_comment", u, "cancelled", pending_add_comment[u], t)
            /\ UNCHANGED comments
       ELSE IF PyStrip(TextOrEmpty(t)) = <<>>
       THEN /\ last' = Ran("handle_user_comment", u, "empty", pending_add_comment[u], t)
            /\ UNCHANGED <<comments, pending_add_comment>>
       ELSE /\ Len(comments) < MaxComments
            /\ comments' = add_comment(pending_add_comment[u], PyStrip(TextOrEmpty(t)))
            /\ pending_add_comment' = Pop(pending_add_comment, u)
            /\ last' = Ran("handle_user_comment", u, "added", pending_add_comment[u], t)
    /\ lastrowid' = (IF comments' # comments THEN Inserted(Len(comments')) ELSE lastrowid)
    /\ UNCHANGED <<threads, users, admins, channels, settings, confessions,
                   pending_confessions, next_step, posts, buttons>>

\* ------------------------------------------------------------ specifications
\* Each specification is the program under one environment: which users send
\* which messages and press which buttons.  The handlers are the same in all.
Fails == {"none", "insert", "confirm"}
Authors == {3}
Candidates == {2}

\* Moderation: MAIN_ADMIN grants and revokes user 2, toggles auto-approve and
\* manages the channels; user 3 submits confessions without tags; every user
\* presses approve and decline buttons.
NextModeration ==
    \/ \E u \in Authors : start_confess(u)
    \/ \E u \in Authors : receive_confession_text(u, <<"b">>)
    \/ \E u \in Authors, failed_ch \in SUBSET channels : handle_skip_tags(u, "none", failed_ch)
    \/ \E u \in Users, action \in {"approve", "decline"}, c \in ConfIds,
          failed_ch \in SUBSET channels : handle_callback_decide(u, action, c, failed_ch)
    \/ toggle_auto(MAIN_ADMIN)
    \/ add_admin_prompt(MAIN_ADMIN)
    \/ \E num \in Numbers({MAIN_ADMIN} \cup Candidates) : handle_add_admin(MAIN_ADMIN, num)
    \/ remove_admin_prompt(MAIN_ADMIN)
    \/ \E num \in Numbers({MAIN_ADMIN} \cup Candidates) : handle_remove_admin(MAIN_ADMIN, num)
    \/ add_channel_prompt(MAIN_ADMIN)
    \/ \E ch \in Channels, ok \in BOOLEAN : handle_add_channel(MAIN_ADMIN, ch, ok)
    \/ remove_channel_prompt(MAIN_ADMIN)
    \/ \E ch \in Channels : handle_remove_channel(MAIN_ADMIN, ch)

SpecModeration == Init /\ [][NextModeration]_vars

\* Creation: user 3 submits confessions with tags or Skip while any call of
\* the environment may raise; MAIN_ADMIN toggles auto-approve and manages the
\* channels.
NextCreate ==
    \/ \E u \in Authors : start_confess(u)
    \/ \E u \in Authors : receive_confession_text(u, <<"b">>)
    \/ \E u \in Authors, t \in {None, <<"a">>}, fail \in Fails, failed_ch \in SUBSET channels :
           receive_confession_tags(u, t, fail, failed_ch)
    \/ \E u \in Authors, fail \in Fails, failed_ch \in SUBSET channels :
           handle_skip_tags(u, fail, failed_ch)
    \/ toggle_auto(MAIN_ADMIN)
    \/ add_channel_prompt(MAIN_ADMIN)
    \/ \E ch \in Channels, ok \in BOOLEAN : handle_add_channel(MAIN_ADMIN, ch, ok)
    \/ remove_channel_prompt(MAIN_ADMIN)
    \/ \E ch \in Channels : handle_remove_channel(MAIN_ADMIN, ch)

SpecCreate == Init /\ [][NextCreate]_vars

\* Drafts: users 2 and 3 draft confessions and open and cancel comment flows;
\* user 3 finishes drafts with Skip or answers the tag prompt without text.
ContentTexts == {None, <<" ">>, <<" ", "a">>, <<"b">>}
CancelTexts == {CancelText, <<" ", "/CANCEL">>}
Writers == {2, 3}

NextDraft ==
    \/ \E u \in Writers : start_confess(u)
    \/ \E u \in Writers, t \in ContentTexts : receive_confession_text(u, t)
    \/ \E u \in Authors : receive_confession_tags(u, None, "none", {})
    \/ \E u \in Authors : handle_skip_tags(u, "none", {})
    \/ \E u \in Writers, c \in ConfIds, ok \in BOOLEAN : handle_callback_addcomment(u, c, ok)
    \/ \E u \in Writers, t \in CancelTexts : handle_user_comment(u, t)

SpecDraft == Init /\ [][NextDraft]_vars

\* Lookup: MAIN_ADMIN grants and revokes user 2; user 3 submits confessions;
\* every user asks for the sender of a confession and for the pending list.
NextLookup ==
    \/ \E u \in Authors : start_confess(u)
    \/ \E u \in Authors : receive_confession_text(u, <<"b">>)
    \/ \E u \in Authors : handle_skip_tags(u, "none", {})
    \/ add_admin_prompt(MAIN_ADMIN)
    \/ \E num \in Numbers({MAIN_ADMIN} \cup Candidates) : handle_add_admin(MAIN_ADMIN, num)
    \/ remove_admin_prompt(MAIN_ADMIN)
    \/ \E num \in Numbers({MAIN_ADMIN} \cup Candidates) : handle_remove_admin(MAIN_ADMIN, num)
    \/ \E u \in Users : prompt_view_sender(u)
    \/ \E u \in Users, num \in Numbers(ConfIds) : handle_view_sender(u, num)
    \/ \E u \in Users : cmd_pending(u)

SpecLookup == Init /\ [][NextLookup]_vars

\* Tags: user 3 submits confessions with every tag text of up to MaxTagLen
\* characters.
NextTags ==
    \/ \E u \in Authors : start_confess(u)
    \/ \E u \in Authors : receive_confession_text(u, <<"b">>)
    \/ \E u \in Authors, t \in TextsUpTo(MaxTagLen) :
           receive_confession_tags(u, t, "none", {})

SpecTags == Init /\ [][NextTags]_vars

\* Race: user 3 submits confessions, MAIN_ADMIN makes user 2 an admin and adds
\* channels, and the approve/decline callbacks of the admins run on the worker
\* threads, their steps interleaving; an admin presses a button when no
\* callback of that admin is still running.
NextRace ==
    \/ \E u \in Authors : start_confess(u)
    \/ \E u \in Authors : receive_confession_text(u, <<"b">>)
    \/ \E u \in Authors : handle_skip_tags(u, "none", {})
    \/ add_admin_prompt(MAIN_ADMIN)
    \/ \E num \in Numbers(Candidates) : handle_add_admin(MAIN_ADMIN, num)
    \/ add_channel_prompt(MAIN_ADMIN)
    \/ \E ch \in Channels : handle_add_channel(MAIN_ADMIN, ch, TRUE)
    \/ \E w \in Workers, u \in {MAIN_ADMIN} \cup Candidates, action \in {"approve", "decline"},
          c \in ConfIds :
           /\ \A x \in Workers : threads[x] = Idle \/ threads[x].user # u
           /\ decide_begin(w, u, action, c)
    \/ \E w \in Workers : decide_set_status(w)
    \/ \E w \in Workers : decide_list_channels(w)
    \/ \E w \in Workers, ch \in Channels, ok \in BOOLEAN : decide_post(w, ch, ok)

SpecRace == Init /\ [][NextRace]_vars

\* The bot restarted on the database of an earlier run: user 3 had submitted
\* two confessions, which MAIN_ADMIN approved while no channel was configured.
\* The tables are kept by the file, the dictionaries start empty.
StoredConfessions ==
    [c \in {1, 2} |-> [id |-> c, user_id |-> 3, content |-> <<"b">>, tags |-> <<>>, status |-> "approved"]]

InitStored ==
    /\ users = {3}
    /\ admins = {}
    /\ channels = {}
    /\ settings = [k \in {"auto_approve"} |-> "0"]
    /\ confessions = StoredConfessions
    /\ comments = <<>>
    /\ pending_confessions = <<>>
    /\ pending_add_comment = <<>>
    /\ next_step = [c \in Chats |-> "none"]
    /\ posts = [p \in (1..MaxConf) \X Channels |-> 0]
    /\ buttons = {<<MAIN_ADMIN, c>> : c \in DOMAIN StoredConfessions}
    /\ threads = [w \in Workers |-> Idle]
    /\ lastrowid = 0
    /\ last = NoOp

\* Comments: users 2 and 3 open comment flows on the stored confessions and on
\* a confession that does not exist, and send blank texts, comments and
\* /cancel, while the table holds fewer than MaxThread comments; they view the
\* first page of the comments.
Readers == {2, 3}
Targets == {1, 2, 3}
CommentTexts == {<<" ">>, <<" ", "c">>, <<" ", "/CANCEL">>}

NextComments ==
    \/ \E u \in Readers, c \in Targets, ok \in BOOLEAN : handle_callback_addcomment(u, c, ok)
    \/ \E u \in Readers, t \in CommentTexts :
           /\ Len(comments) < MaxThread
           /\ handle_user_comment(u, t)
    \/ \E u \in Readers, c \in Targets, ok \in BOOLEAN : handle_callback_viewcomments(u, <<c>>, ok)

SpecComments == InitStored /\ [][NextComments]_vars

\* Pages: user 2 comments on the stored confessions and views the comments,
\* pressing the "Next" button of a listing when the listing offers it.
Pagers == {2}

NextPages ==
    \/ \E u \in Pagers, c \in DOMAIN StoredConfessions : handle_callback_addcomment(u, c, TRUE)
    \/ \E u \in Pagers : handle_user_comment(u, <<"c">>)
    \/ \E u \in Pagers, c \in DOMAIN StoredConfessions :
           handle_callback_viewcomments(u, <<c>>, TRUE)
    \/ \E u \in Pagers, c \in DOMAIN StoredConfessions :
           /\ count_comments(c) > PageSize
           /\ handle_callback_viewpage(u, <<c, 1>>, TRUE)

SpecPages == InitStored /\ [][NextPages]_vars

\* Cancel: users 2 and 3 start confessions and comment flows on the stored
\* confessions in any order and send a confession text or /cancel.
NextCancel ==
    \/ \E u \in Writers : start_confess(u)
    \/ \E u \in Writers, t \in {<<"b">>} \cup CancelTexts : receive_confession_text(u, t)
    \/ \E u \in Writers, c \in DOMAIN StoredConfessions : handle_callback_addcomment(u, c, TRUE)
    \/ \E u \in Writers, t \in CancelTexts : handle_user_comment(u, t)

SpecCancel == InitStored /\ [][NextCancel]_vars

\* Admins: MAIN_ADMIN sends "Add Admin" and "Remove Admin" in the private chat
\* and in the group; the next message of the chat is a number, in the group from
\* any member; the admins toggle auto-approve.
NextAdmins ==
    \/ \E chat \in {MAIN_ADMIN} \cup Groups : add_admin_prompt_in(chat, MAIN_ADMIN)
    \/ \E chat \in {MAIN_ADMIN} \cup Groups, u \in Users, num \in Numbers(Users) :
           /\ chat \in Users => u = chat
           /\ handle_add_admin_in(chat, u, num)
    \/ \E chat \in {MAIN_ADMIN} \cup Groups : remove_admin_prompt_in(chat, MAIN_ADMIN)
    \/ \E chat \in {MAIN_ADMIN} \cup Groups, u \in Users, num \in Numbers(Users) :
           /\ chat \in Users => u = chat
           /\ handle_remove_admin_in(chat, u, num)
    \/ \E u \in Users : toggle_auto(u)

SpecAdmins == Init /\ [][NextAdmins]_vars

\* ------------------------------------------------------------------ claims
Decisions == {"approve", "decline"}
Finalizers == {"receive_confession_tags", "handle_skip_tags"}

\* C1: a stored status changes only from pending to approved or from pending to
\* declined; once approved or declined, no approve or decline call changes it.
C1_StatusOnlyLeavesPending ==
    [][\A c \in 1..Len(confessions) :
          confessions'[c].status # confessions[c].status
              => /\ confessions[c].status = "pending"
                 /\ confessions'[c].status \in {"approved", "declined"}]_vars

\* C2: approve or decline by an authorized admin on an existing confession whose
\* status is not pending returns the AlreadyDecided outcome and posts nothing.
C2_DecidedIsRejected ==
    [][(/\ last'.op \in Decisions
        /\ (last'.user = MAIN_ADMIN \/ last'.user \in {r.id : r \in admins})
        /\ last'.conf \in 1..Len(confessions)
        /\ confessions[last'.conf].status # "pending")
           => (last'.outcome = "already_decided" /\ posts' = posts)]_vars

\* C3: approve or decline by a user who is neither MAIN_ADMIN nor a row of the
\* admins table at the time of the call ends not-authorized, changes no status
\* and posts nothing, also for a former admin who still holds the buttons.
C3_NonAdminDecideRejected ==
    [][(/\ last'.op \in Decisions
        /\ last'.user # MAIN_ADMIN
        /\ last'.user \notin {r.id : r \in admins})
           => (/\ last'.outcome = "not_authorized"
               /\ confessions' = confessions
               /\ posts' = posts)]_vars

\* C3 witness: a revoked admin pressed a button sent to them earlier, on a
\* pending confession, with a channel configured, and was refused.
C3_RevokedAdminRejected ==
    /\ last.op \in Decisions
    /\ last.outcome = "not_authorized"
    /\ <<last.user, last.conf>> \in buttons
    /\ last.user \notin {r.id : r \in admins}
    /\ last.conf \in 1..Len(confessions)
    /\ confessions[last.conf].status = "pending"
    /\ channels # {}

\* C4: an author id is delivered only to a user who is an admin at the moment
\* of delivery, for every interleaving of grant/revoke with the sender lookup.
C4_SenderOnlyToAdmins ==
    [][last'.shown # {}
           => (last'.user = MAIN_ADMIN \/ last'.user \in {r.id : r \in admins})]_vars

AutoApproveOn == "auto_approve" \in DOMAIN settings /\ settings["auto_approve"] = "1"

\* C5: a created confession is approved exactly when auto_approve is on at its
\* creation (off when never set) and pending otherwise; a toggle changes the
\* setting and the status of no stored confession.
C5_StatusFollowsAutoApprove ==
    [][/\ Len(confessions') = Len(confessions) + 1
          => /\ last'.op \in Finalizers
             /\ confessions'[Len(confessions')].status
                    = (IF AutoApproveOn THEN "approved" ELSE "pending")
       /\ last'.op = "toggle_auto"
          => /\ AutoApproveOn' = ~AutoApproveOn
             /\ confessions' = confessions]_vars

\* C5 witness: a confession created with auto-approve off is still pending
\* when one created after the toggle is approved.
C5_ToggleKeepsOlderStatus ==
    /\ Len(confessions) = 2
    /\ confessions[1].status = "pending"
    /\ confessions[2].status = "approved"
    /\ last.op \in Finalizers
    /\ last.outcome = "created"
    /\ last.conf = 2

RECURSIVE LStripHash(_)
LStripHash(w) == IF w # <<>> /\ Head(w) = "#" THEN LStripHash(Tail(w)) ELSE w

\* the reference of C6: split on whitespace, strip the leading '#' of each
\* token, discard the tokens that are empty then, keep the first 4
RefTags(raw) ==
    LET tokens == PySplitWs(raw)
        stripped == [i \in 1..Len(tokens) |-> LStripHash(tokens[i])]
    IN  PyTake(SelectSeq(stripped, LAMBDA w : w # <<>>), 4)

\* C6: the tags of the stored confession, as read back, equal the reference
\* result for the raw input; every stored tag is non-empty, has no '#' prefix,
\* and there are at most 4.
C6_StoredTagsMatchReference ==
    (last.op = "receive_confession_tags" /\ last.outcome = "created")
        => LET tags == get_confession_by_id(last.conf).tags
           IN  /\ tags = RefTags(last.input)
               /\ Len(tags) <= 4
               /\ \A i \in 1..Len(tags) : tags[i] # <<>> /\ Head(tags[i]) # "#"

\* C7: finalizing (tag message or Skip) without a draft ends no-pending-draft:
\* no confession row, no channel post, no admin notification, no flow change.
C7_NoDraftNoEffect ==
    [][(last'.op \in Finalizers /\ last'.user \notin DOMAIN pending_confessions)
           => (/\ last'.outcome = "no_pending"
               /\ confessions' = confessions
               /\ posts' = posts
               /\ buttons' = buttons
               /\ pending_confessions' = pending_confessions
               /\ pending_add_comment' = pending_add_comment)]_vars

\* C7 witness: a tag message arrived after Skip had consumed the draft, with
\* auto-approve on and a channel configured.
C7_TagsAfterSkip ==
    /\ last.op = "receive_confession_tags"
    /\ last.outcome = "no_pending"
    /\ Len(confessions) > 0
    /\ AutoApproveOn
    /\ channels # {}

\* C8: after a finalizing call that found a draft, that user's draft is absent,
\* whether the call ended normally or a step inside it failed.
C8_DraftAbsentAfterFinalize ==
    [][(/\ last'.op \in Finalizers
        /\ last'.user \in DOMAIN pending_confessions
        /\ last'.outcome \in {"created", "failed"})
           => last'.user \notin DOMAIN pending_confessions']_vars

Blank(t) == t = None \/ \A i \in 1..Len(t) : t[i] = " "

\* C9: a content that is empty after trimming gets the validation error and
\* leaves the draft map unchanged for every user.
C9_BlankContentRejected ==
    [][(last'.op = "receive_confession_text" /\ Blank(last'.input))
           => (/\ last'.outcome = "empty"
               /\ pending_confessions' = pending_confessions)]_vars

\* C9 witness: blank content was refused while the user had an unfinished
\* draft, which is still there.
C9_BlankKeepsDraft ==
    /\ last.op = "receive_confession_text"
    /\ last.outcome = "empty"
    /\ last.input = <<" ">>
    /\ last.user \in DOMAIN pending_confessions

\* C10: a non-empty content leaves the user's draft equal to exactly the new
\* trimmed content whatever the prior draft was, and leaves the drafts and the
\* comment targets of all other users unchanged.
C10_DraftReplaced ==
    [][(last'.op = "receive_confession_text" /\ ~Blank(last'.input))
           => LET u == last'.user
              IN  /\ u \in DOMAIN pending_confessions'
                  /\ pending_confessions'[u] = [content |-> PyStrip(last'.input)]
                  /\ \A v \in Users \ {u} :
                        /\ v \in DOMAIN pending_confessions' <=> v \in DOMAIN pending_confessions
                        /\ v \in DOMAIN pending_confessions
                               => pending_confessions'[v] = pending_confessions[v]
                        /\ v \in DOMAIN pending_add_comment' <=> v \in DOMAIN pending_add_comment
                        /\ v \in DOMAIN pending_add_comment
                               => pending_add_comment'[v] = pending_add_comment[v]]_vars

\* C10 witness: a draft replaced an unfinished one while another user had a
\* draft and a comment target.
C10_ReplacedBesideOthers ==
    /\ last.op = "receive_confession_text"
    /\ last.outcome = "replaced"
    /\ \E v \in Users \ {last.user} :
          v \in DOMAIN pending_confessions /\ v \in DOMAIN pending_add_comment

\* the posts a run for confession c adds when the sends to failed raise: one to
\* every other configured channel, none anywhere else
DeliveredExcept(c, failed) ==
    \A p \in DOMAIN posts :
        posts'[p] = IF p[1] = c /\ p[2] \in channels /\ p[2] \notin failed
                    THEN posts[p] + 1 ELSE posts[p]

\* C11: an approve by an admin of an existing confession, and a creation under
\* auto-approve, deliver to every configured channel whose send does not raise,
\* whatever subset of the sends raises; the status is approved afterwards and
\* the run ends as a success.
C11_EveryOtherChannelReceives ==
    [][ /\ ( /\ last'.op = "approve"
             /\ last'.user \in {MAIN_ADMIN} \cup {r.id : r \in admins}
             /\ last'.conf \in 1..Len(confessions) )
           => /\ DeliveredExcept(last'.conf, last'.failed)
              /\ confessions'[last'.conf].status = "approved"
              /\ last'.outcome = "approved"
        /\ ( /\ last'.op \in Finalizers
             /\ Len(confessions') = Len(confessions) + 1
             /\ AutoApproveOn )
           => /\ DeliveredExcept(Len(confessions'), last'.failed)
              /\ confessions'[Len(confessions')].status = "approved"
              /\ last'.outcome = "created"
      ]_vars

\* an approve with two channels configured where the send to the first listed
\* channel raised and the other channel received the confession
C11_OneChannelFailed ==
    /\ last.op = "approve"
    /\ last.outcome = "approved"
    /\ Cardinality(channels) = 2
    /\ \E f \in last.failed : \E ch \in channels \ last.failed :
           f < ch /\ posts[<<last.conf, ch>>] >= 1

\* C12: a channel receives a confession only while the stored status of that
\* confession is approved, whatever way the steps of the approve and decline
\* handlers of different admins interleave.
C12_PostOnlyWhileApproved ==
    [][ \A p \in DOMAIN posts :
            posts'[p] > posts[p]
            => /\ p[1] \in 1..Len(confessions)
               /\ confessions[p[1]].status = "approved" ]_vars

\* C13: a comment text that is blank after trimming appends nothing and leaves
\* the user's comment target in place; a comment flow opened on a confession
\* that does not exist appends nothing and sets no target; every stored comment
\* has a non-blank text and the id of an existing confession.
C13_OnlyValidCommentsStored ==
    [][ /\ (last'.op = "handle_user_comment" /\ Blank(last'.input))
           => /\ comments' = comments
              /\ pending_add_comment' = pending_add_comment
              /\ last'.user \in DOMAIN pending_add_comment'
        /\ (last'.op = "addcomment" /\ last'.conf \notin 1..Len(confessions))
           => /\ comments' = comments
              /\ pending_add_comment' = pending_add_comment
        /\ \A i \in 1..Len(comments') :
              /\ ~Blank(comments'[i].text)
              /\ comments'[i].confession_id \in 1..Len(confessions')
      ]_vars

\* a blank text was refused while the table holds a comment, and the sender
\* still has the comment target
C13_BlankCommentRefused ==
    /\ last.op = "handle_user_comment"
    /\ Blank(last.input)
    /\ last.user \in DOMAIN pending_add_comment
    /\ Len(comments) >= 1

\* the comments of confession c whose rank among the comments of c, by
\* ascending id, is in (page * PageSize, page * PageSize + PageSize]
RefPage(c, page) ==
    LET Rank(r) == Cardinality({j \in 1..Len(comments) :
                       comments[j].confession_id = c /\ comments[j].id <= r.id})
        slice == SelectSeq(comments, LAMBDA r : /\ r.confession_id = c
                                                /\ Rank(r) > page * PageSize
                                                /\ Rank(r) <= page * PageSize + PageSize)
    IN  [i \in 1..Len(slice) |-> [id |-> slice[i].id, text |-> slice[i].text]]

\* C14: the comment table and the listings do not depend on who comments: the
\* row a comment adds is determined by the confession and the trimmed text, a
\* listing is determined by the table and the confession, and neither a stored
\* row nor a listed row has a field for a user id.
C14_CommentsCarryNoUser ==
    [][ /\ comments' # comments
           => comments' = Append(comments, [id |-> Len(comments) + 1,
                                            confession_id |-> last'.conf,
                                            text |-> PyStrip(last'.input)])
        /\ \A i \in 1..Len(comments') :
              DOMAIN comments'[i] = {"id", "confession_id", "text"}
        /\ (last'.op = "viewcomments" /\ last'.outcome = "listed")
           => /\ last'.rows = RefPage(last'.conf, 0)
              /\ \A i \in 1..Len(last'.rows) : DOMAIN last'.rows[i] = {"id", "text"}
      ]_vars

\* a listing of two comments on one confession was shown to a user
C14_TwoCommentsListed ==
    /\ last.op = "viewcomments"
    /\ last.outcome = "listed"
    /\ Len(last.rows) = 2
    /\ Len(comments) = 2

\* the page a listing request asks for: "viewcomments|c" is page 0 of c,
\* "viewpage|c|p" is page p of c
AskedPage(l) == IF l.op = "viewpage" THEN l.input[2] ELSE 0

\* C15: a request for page p of the comments of an existing confession c shows
\* exactly the comments of c at the positions [p * 10, p * 10 + 10) by
\* ascending id, and ends without an error, with nothing listed, when there is
\* no comment at those positions.
C15_PageIsSlice ==
    [][ ( /\ last'.op \in {"viewcomments", "viewpage"}
          /\ last'.input[1] \in 1..Len(confessions) )
        => LET ref == RefPage(last'.input[1], AskedPage(last'))
           IN  IF ref = <<>>
               THEN last'.outcome \in {"no_comments", "no_more"}
               ELSE last'.outcome = "listed" /\ last'.rows = ref
      ]_vars

\* C16: a page of the comments of a confession that holds 10 comments is the
\* same 10 comments in the same order after every later step, whatever is
\* appended.
C16_FullPageStable ==
    [][ \A c \in 1..Len(confessions), page \in 0..(MaxComments \div PageSize) :
            Len(get_comments_for_conf(c, PageSize, page * PageSize)) = PageSize
            => get_comments_for_conf(c, PageSize, page * PageSize)'
               = get_comments_for_conf(c, PageSize, page * PageSize) ]_vars

\* the first page of a confession is listed in full after an eleventh comment
\* was added to that confession
C16_FullPageAfterAppend ==
    /\ last.op = "viewcomments"
    /\ last.outcome = "listed"
    /\ Len(last.rows) = PageSize
    /\ \A i \in 1..PageSize : last.rows[i].id = i
    /\ count_comments(last.conf) > PageSize

\* a message that is the cancel command, in either case, with blanks around it
CancelRequest(t) ==
    /\ t # None
    /\ \E i \in 1..Len(t) :
          /\ t[i] \in {"/cancel", "/CANCEL"}
          /\ \A j \in 1..Len(t) : j # i => t[j] = " "

\* C17: the comment table only grows at its end: no step changes or removes a
\* stored comment, and a comment that is accepted gets an id greater than the
\* id of every comment stored before, of whatever confession.
C17_CommentsAppendOnly ==
    [][ /\ Len(comments') >= Len(comments)
        /\ \A i \in 1..Len(comments) : comments'[i] = comments[i]
        /\ ( /\ last'.op = "handle_user_comment"
             /\ ~Blank(last'.input)
             /\ ~CancelRequest(last'.input) )
           => /\ Len(comments') = Len(comments) + 1
              /\ \A i \in 1..Len(comments) : comments'[Len(comments')].id > comments[i].id
      ]_vars

\* a second comment was accepted, on another confession than the first
C17_SecondCommentElsewhere ==
    /\ last.op = "handle_user_comment"
    /\ last.outcome = "added"
    /\ Len(comments) = 2
    /\ comments[1].confession_id # comments[2].confession_id
    /\ comments[2].confession_id = last.conf

\* C18: no user has a confession draft and a comment target at the same time.
C18_OneFlowPerUser ==
    \A u \in Users : ~(u \in DOMAIN pending_confessions /\ u \in DOMAIN pending_add_comment)

\* C19: when a user who has a comment target sends /cancel, the target of that
\* user is removed and nothing else changes: the targets of the other users,
\* the drafts, the confessions and the comments stay as they were.
C19_CancelRemovesOwnTargetOnly ==
    [][ (CancelRequest(last'.input) /\ last'.user \in DOMAIN pending_add_comment)
        => /\ DOMAIN pending_add_comment' = DOMAIN pending_add_comment \ {last'.user}
           /\ \A v \in DOMAIN pending_add_comment' :
                 pending_add_comment'[v] = pending_add_comment[v]
           /\ pending_confessions' = pending_confessions
           /\ comments' = comments
           /\ confessions' = confessions
      ]_vars

C21_OnlyMainAdminChangesAdmins ==
    [][ /\ admins' # admins
           => /\ last'.op \in {"handle_add_admin", "handle_remove_admin"}
              /\ last'.user = MAIN_ADMIN
        /\ ( /\ last'.op = "handle_add_admin"
             /\ (last'.conf = MAIN_ADMIN \/ \E r \in admins : r.id = last'.conf) )
           => admins' = admins
      ]_vars

\* ------------------------------------------------ concurrent finalizers
\* Insert: users 2 and 3 write drafts and finalize them by a tag message or by
\* Skip, the statements of the two handlers interleaving (a user's own
\* finalizers do not overlap here); user 2 comments on confession 1.
TagTexts == {<<"a">>}

\* the bot starts on a database in which channel -1 is registered and
\* auto-approve was switched on or off
InitChannel ==
    /\ users = {}
    /\ admins = {}
    /\ channels = {-1}
    /\ settings \in [{"auto_approve"} -> {"0", "1"}]
    /\ confessions = <<>>
    /\ comments = <<>>
    /\ pending_confessions = <<>>
    /\ pending_add_comment = <<>>
    /\ next_step = [c \in Chats |-> "none"]
    /\ posts = [p \in (1..MaxConf) \X Channels |-> 0]
    /\ buttons = {}
    /\ threads = [w \in Workers |-> Idle]
    /\ lastrowid = 0
    /\ last = NoOp

NextInsert ==
    \/ \E u \in Writers : u \notin users /\ start_confess(u)
    \/ \E u \in Writers : receive_confession_text(u, <<"b">>)
    \/ \E w \in Workers, u \in Writers, op \in Finalizers :
           /\ \A x \in Workers : threads[x].user # u
           /\ \E t \in (IF op = "receive_confession_tags" THEN TagTexts ELSE {<<>>}) :
                  finalize_begin(w, u, op, t)
    \/ \E w \in Workers : finalize_insert(w)
    \/ \E w \in Workers : finalize_lastrowid(w)
    \/ \E w \in Workers : finalize_publish(w)
    \/ handle_callback_addcomment(2, 1, TRUE)
    \/ Len(comments) < MaxThread /\ handle_user_comment(2, <<" ", "c">>)

SpecInsert == InitChannel /\ [][NextInsert]_vars

\* C22: a finalizer that publishes, publishes the row it inserted itself: the
\* id it posts or sends to the admins is the id of its own row, whose author
\* is its own user
C22_PublishesOwnRow ==
    [][\A w \in Workers :
          (threads[w].pc = "publish" /\ threads'[w].pc = "idle")
              => /\ threads[w].conf = threads[w].own
                 /\ get_confession_by_id(threads[w].conf).user_id = threads[w].user
      ]_vars

\* Finalize: users 2 and 3 each write one draft; the tag message and the
\* presses of Skip of a user are handled on the worker threads, a second
\* handler beginning before the first has ended.
NextFinalize ==
    \/ \E u \in Writers : u \notin users /\ start_confess(u)
    \/ \E u \in Writers : receive_confession_text(u, <<"b">>)
    \/ \E w \in Workers, u \in Writers, t \in TagTexts :
           finalize_begin(w, u, "receive_confession_tags", t)
    \/ \E w \in Workers, u \in Writers : finalize_begin(w, u, "handle_skip_tags", <<>>)
    \/ \E w \in Workers : finalize_insert(w)
    \/ \E w \in Workers : finalize_lastrowid(w)
    \/ \E w \in Workers : finalize_publish(w)

SpecFinalize == Init /\ [][NextFinalize]_vars

\* the confessions whose author is u
ConfessionsOf(u) == {c \in DOMAIN confessions : confessions[c].user_id = u}

\* C25: a user who has begun one draft has at most one confession
C25_OneConfessionPerDraft ==
    \A u \in Writers : Cardinality(ConfessionsOf(u)) <= 1

\* C26: no confession has been posted to a channel more than once
C26_PostedAtMostOnce ==
    \A p \in DOMAIN posts : posts[p] <= 1

\* Frame: users 2 and 3 each create a confession with tags; the main admin approves and
\* declines, toggles auto-approve, grants user 2 and registers channel -1,
\* each once; user 2 adds one comment to confession 1.  A user begins when
\* nobody is in the middle of a dialogue with the bot.
Quiet ==
    /\ \A c \in Chats : next_step[c] = "none"
    /\ pending_confessions = <<>>
    /\ pending_add_comment = <<>>

NextFrame ==
    \/ \E u \in Writers : Quiet /\ u \notin users /\ start_confess(u)
    \/ \E u \in Writers : receive_confession_text(u, <<"b">>)
    \/ \E u \in Writers, t \in TagTexts : receive_confession_tags(u, t, "none", {})
    \/ \E action \in Decisions, c \in ConfIds : handle_callback_decide(MAIN_ADMIN, action, c, {})
    \/ toggle_auto(MAIN_ADMIN)
    \/ Quiet /\ admins = {} /\ add_admin_prompt(MAIN_ADMIN)
    \/ \E num \in Numbers(Candidates) : handle_add_admin(MAIN_ADMIN, num)
    \/ Quiet /\ channels = {} /\ add_channel_prompt(MAIN_ADMIN)
    \/ handle_add_channel(MAIN_ADMIN, -1, TRUE)
    \/ Quiet /\ comments = <<>> /\ handle_callback_addcomment(2, 1, TRUE)
    \/ handle_user_comment(2, <<" ", "c">>)

SpecFrame == Init /\ [][NextFrame]_vars

\* C23: the ids of the confessions are distinct and grow in creation order,
\* and a step keeps every stored confession with its id, author, content and
\* tags: it may change the status only
C23_ConfessionsKeepIdAuthorContentTags ==
    [][ /\ \A i, j \in DOMAIN confessions' : i < j => confessions'[i].id < confessions'[j].id
        /\ \A i \in DOMAIN confessions :
              /\ i \in DOMAIN confessions'
              /\ confessions'[i].id = confessions[i].id
              /\ confessions'[i].user_id = confessions[i].user_id
              /\ confessions'[i].content = confessions[i].content
              /\ confessions'[i].tags = confessions[i].tags
      ]_vars

\* two confessions are stored, the first one decided, and a comment was added
C23_SecondCreatedAfterDecision ==
    /\ Len(confessions) = 2
    /\ confessions[1].status # confessions[2].status
    /\ comments # <<>>
    /\ admins # {}
    /\ channels # {}

\* Sender: users 2 and 3 each write a draft and finalize it, by tags or by
\* Skip, with and without a failing send; the main admin looks up the sender of
\* the confessions and of ids that name none.
NextSender ==
    \/ \E u \in Writers : Quiet /\ u \notin users /\ start_confess(u)
    \/ \E u \in Writers, t \in {<<"a">>, <<"b">>} : receive_confession_text(u, t)
    \/ \E u \in Writers, t \in TagTexts, fail \in Fails :
           receive_confession_tags(u, t, fail, {})
    \/ \E u \in Writers, fail \in Fails : handle_skip_tags(u, fail, {})
    \/ Quiet /\ prompt_view_sender(MAIN_ADMIN)
    \/ \E num \in Numbers(ConfIds) : handle_view_sender(MAIN_ADMIN, num)

SpecSender == Init /\ [][NextSender]_vars

\* the stored rows whose id is conf_id
RowsWithId(conf_id) == {i \in DOMAIN confessions : confessions[i].id = conf_id}

\* C24: a confession is stored with the id of the user whose draft it was
\* made from, who is in the users table; the row keeps that author; and the
\* lookup of a number shows exactly the author of the row with that id, or
\* answers not found when no row has that id
C24_LookupShowsTheAuthor ==
    [][ /\ Len(confessions') > Len(confessions)
           => /\ last'.op \in Finalizers
              /\ Len(confessions') = Len(confessions) + 1
              /\ last'.user \in DOMAIN pending_confessions
              /\ confessions'[Len(confessions')].user_id = last'.user
              /\ confessions'[Len(confessions')].content =
                     pending_confessions[last'.user].content
              /\ last'.user \in users'
        /\ \A i \in DOMAIN confessions :
              /\ i \in DOMAIN confessions'
              /\ confessions'[i].id = confessions[i].id
              /\ confessions'[i].user_id = confessions[i].user_id
        /\ (last'.op = "handle_view_sender" /\ last'.outcome # "invalid")
           => IF RowsWithId(last'.conf) = {}
              THEN last'.outcome = "not_found" /\ last'.shown = {}
              ELSE /\ last'.outcome = "sender"
                   /\ last'.shown = {confessions[i].user_id : i \in RowsWithId(last'.conf)}
      ]_vars

\* the sender of the second confession was looked up; the first confession has
\* another author
C24_SecondSenderShown ==
    /\ last.op = "handle_view_sender"
    /\ last.outcome = "sender"
    /\ last.conf = 2
    /\ Len(confessions) = 2
    /\ confessions[1].user_id # confessions[2].user_id
    /\ last.shown = {confessions[2].user_id}

====
